---- MODULE Spec2Model ----
(***************************************************************************)
(* Model of the capture-topology and scanline-weighting functions of       *)
(* arim/ut.py (fmc, hmc, infer_capture_method, default_scanline_weights)   *)
(* and of the delay-and-sum imaging functions exercised by                 *)
(* tests/im/test_tfm.py (tfm_for_view, contact_tfm,                        *)
(* extrema_lookup_times_in_rectbox).                                       *)
(*                                                                         *)
(* Element indices are 0-based as in the source; TLA+ sequences are        *)
(* 1-based, so scanline k of the source is position k+1 of tx and rx.      *)
(* The floating-point weights 1.0 and 2.0 are the integers 1 and 2.        *)
(***************************************************************************)
EXTENDS Integers, Sequences, FiniteSets, TLC

\* ------------------------------------------------------------------ bounds

\* Largest number of probe elements for which fmc(N) and hmc(N) are loaded,
\* and the range 0..MaxN-1 of the element indices of hand-built inputs.
MaxN == 3

\* Largest number of scanlines of a hand-built tx/rx input.
MaxLen == 3

\* Largest number of transpositions of two scanlines applied to a loaded
\* acquisition.
MaxSwaps == 1

\* Largest number of probe elements of an imaged frame.
MaxProbe == 3

\* Largest number of waveform samples and lookup times set before a call.
MaxEdits == 2

\* Number of samples of the time base of a frame: instants 0..NumSamples-1.
NumSamples == 2

\* Largest lookup time of one path (and, negated, smallest one of the extrema
\* tables).
MaxTime == 1

\* Largest waveform amplitude.
MaxAmp == 1

\* Number of points of the grid searched for extrema.
NumGridPoints == 2

\* The grid of test_multiview_tfm and test_contact_tfm holds a single point.
NumPoints == 1

VARIABLES
    pc,                \* position: "input", or the name of the call that returned
    tx,                \* transmitter index of each scanline
    rx,                \* receiver index of each scanline
    origin,            \* how tx/rx were produced: [kind, n]
    swaps,             \* number of scanline transpositions applied
    capture_method,    \* value returned by infer_capture_method, or "none"
    scanline_weights,  \* value returned by default_scanline_weights, or << >>
    error,             \* exception raised by the call, or "none"
    scanline_data,     \* waveform recorded for each element pair {i, j}
    times_tx_path,     \* lookup times of the view's transmit path [point][element]
    times_rx_path,     \* lookup times of the view's receive path [point][element]
    edits,             \* number of samples and lookup times set so far
    tfm_res,           \* image returned by tfm_for_view or contact_tfm
    tfm_rev,           \* image returned by tfm_for_view for the reversed view
    lookup_times_tx,   \* extrema: transmit lookup times [point][scanline]
    lookup_times_rx,   \* extrema: receive lookup times [point][scanline]
    extrema            \* value returned by extrema_lookup_times_in_rectbox

utvars == <<origin, swaps, capture_method, scanline_weights, error>>

imvars == <<scanline_data, times_tx_path, times_rx_path, tfm_res, tfm_rev>>

extvars == <<lookup_times_tx, lookup_times_rx, extrema>>

vars == <<pc, tx, rx, utvars, edits, imvars, extvars>>

\* ------------------------------------------------------- numpy primitives

Max2(a, b) == IF a >= b THEN a ELSE b

Min2(a, b) == IF a <= b THEN a ELSE b

\* np.arange(n): 0, 1, ..., n-1
arange(n) == [k \in 1..n |-> k - 1]

\* np.arange(n, 0, -1) and range(n, 0, -1): n, n-1, ..., 1
arange_down(n) == [k \in 1..n |-> n - k + 1]

\* A sequence holding c copies of x.
Copies(x, c) == [k \in 1..c |-> x]

RECURSIVE repeat_each(_, _)
\* np.repeat(elements, counts) with one count per element.
repeat_each(elements, counts) ==
    IF elements = << >> THEN << >>
    ELSE Copies(Head(elements), Head(counts))
         \o repeat_each(Tail(elements), Tail(counts))

\* np.repeat(elements, n) with a scalar count.
repeat(elements, n) == repeat_each(elements, Copies(n, Len(elements)))

RECURSIVE tile(_, _)
\* np.tile(elements, n): the whole sequence n times over.
tile(elements, n) == IF n <= 0 THEN << >> ELSE elements \o tile(elements, n - 1)

\* elements[-n:], the last n entries.
take_last(elements, n) == SubSeq(elements, Len(elements) - n + 1, Len(elements))

RECURSIVE seq_max(_)
\* np.max of a non-empty sequence.
seq_max(s) == IF Len(s) = 1 THEN s[1] ELSE Max2(Head(s), seq_max(Tail(s)))

\* set(zip(a, b)): zip stops at the shorter argument.
zip_set(a, b) == {<<a[k], b[k]>> : k \in 1..Min2(Len(a), Len(b))}

\* ------------------------------------------------------------ fmc and hmc

\* fmc(numelements): tx = 0 0 0 1 1 1 2 2 2, rx = 0 1 2 0 1 2 0 1 2.
fmc(numelements) ==
    LET elements == arange(numelements)
    IN  [tx |-> repeat(elements, numelements),
         rx |-> tile(elements, numelements)]

RECURSIVE hmc_rx(_, _)
\* The loop of hmc over take_n_last: each pass writes elements[-n:] at
\* rx[start:stop], so the passes concatenate.
hmc_rx(elements, take_n_last) ==
    IF take_n_last = << >> THEN << >>
    ELSE take_last(elements, Head(take_n_last))
         \o hmc_rx(elements, Tail(take_n_last))

\* A miscounted half matrix: every transmitter paired with all the receivers.
hmc_all_receivers(numelements) ==
    LET elements == arange(numelements)
    IN  [tx |-> repeat(elements, numelements),
         rx |-> hmc_rx(elements, Copies(numelements, numelements))]

\* hmc(numelements): tx = 0 0 0 1 1 2, rx = 0 1 2 1 2 2 (rx >= tx).
hmc(numelements) ==
    LET elements == arange(numelements)
    IN  [tx |-> repeat_each(elements, arange_down(numelements)),
         rx |-> hmc_rx(elements, arange_down(numelements))]

\* ----------------------------------------------------- infer_capture_method

\* A call's outcome: the exception raised ("none" when it returns) and the
\* value returned.
Raise(exc, nothing) == [error |-> exc, value |-> nothing]

Return(v) == [error |-> "none", value |-> v]

\* numelements = max(np.max(tx), np.max(rx)) + 1
num_elements(t, r) == Max2(seq_max(t), seq_max(r)) + 1

\* The half-matrix test of infer_capture_method.
is_hmc(t, r) ==
    LET numelements == num_elements(t, r)
        h == hmc(numelements)
        combinations == zip_set(t, r)
        combinations_hmc1 == zip_set(h.tx, h.rx)
        combinations_hmc2 == zip_set(h.rx, h.tx)
    IN  /\ Len(h.tx) = Len(t)
        /\ \/ combinations = combinations_hmc1
           \/ combinations = combinations_hmc2

\* The full-matrix test of infer_capture_method.
is_fmc(t, r) ==
    LET numelements == num_elements(t, r)
        f == fmc(numelements)
        combinations == zip_set(t, r)
        combinations_fmc == zip_set(f.tx, f.rx)
    IN  /\ Len(f.tx) = Len(t)
        /\ combinations = combinations_fmc

\* infer_capture_method with the largest index taken for the element count.
infer_capture_method_off_by_one(t, r) ==
    IF t = << >> \/ r = << >> THEN Raise("ValueError", "none")
    ELSE IF Len(t) # Len(r) THEN Raise("AssertionError", "none")
    ELSE LET numelements == Max2(seq_max(t), seq_max(r))
             h == hmc(numelements)
             f == fmc(numelements)
             combinations == zip_set(t, r)
         IN  IF /\ Len(h.tx) = Len(t)
                /\ \/ combinations = zip_set(h.tx, h.rx)
                   \/ combinations = zip_set(h.rx, h.tx)
             THEN Return("hmc")
             ELSE IF Len(f.tx) = Len(t) /\ combinations = zip_set(f.tx, f.rx)
             THEN Return("fmc")
             ELSE Return("unsupported")

\* infer_capture_method testing only the tx <= rx half matrix.
infer_capture_method_one_order(t, r) ==
    IF t = << >> \/ r = << >> THEN Raise("ValueError", "none")
    ELSE IF Len(t) # Len(r) THEN Raise("AssertionError", "none")
    ELSE LET h == hmc(num_elements(t, r))
         IN  IF Len(h.tx) = Len(t) /\ zip_set(t, r) = zip_set(h.tx, h.rx)
             THEN Return("hmc")
             ELSE IF is_fmc(t, r) THEN Return("fmc")
             ELSE Return("unsupported")

\* infer_capture_method without its length assertion.
infer_capture_method_unchecked(t, r) ==
    IF t = << >> \/ r = << >> THEN Raise("ValueError", "none")
    ELSE IF is_hmc(t, r) THEN Return("hmc")
    ELSE IF is_fmc(t, r) THEN Return("fmc")
    ELSE Return("unsupported")

\* infer_capture_method(tx, rx).  np.max of an empty sequence raises
\* ValueError before the assertion on the lengths is reached.
infer_capture_method(t, r) ==
    IF t = << >> \/ r = << >> THEN Raise("ValueError", "none")
    ELSE IF Len(t) # Len(r) THEN Raise("AssertionError", "none")
    ELSE IF is_hmc(t, r) THEN Return("hmc")
    ELSE IF is_fmc(t, r) THEN Return("fmc")
    ELSE Return("unsupported")

\* -------------------------------------------------- default_scanline_weights

\* default_scanline_weights looking up the pair itself, not its reciprocal.
default_scanline_weights_same_pair(t, r) ==
    IF Len(t) # Len(r) THEN Raise("ValueError", << >>)
    ELSE IF Len(t) = 0 THEN Raise("ValueError", << >>)
    ELSE LET elements_pairs == zip_set(t, r)
         IN  Return([k \in 1..Len(t) |->
                        IF <<t[k], r[k]>> \notin elements_pairs THEN 2 ELSE 1])

\* default_scanline_weights with the membership test inverted.
default_scanline_weights_inverted(t, r) ==
    IF Len(t) # Len(r) THEN Raise("ValueError", << >>)
    ELSE IF Len(t) = 0 THEN Raise("ValueError", << >>)
    ELSE LET elements_pairs == zip_set(t, r)
         IN  Return([k \in 1..Len(t) |->
                        IF <<r[k], t[k]>> \in elements_pairs THEN 2 ELSE 1])

\* default_scanline_weights without its length check: np.ones(len(tx)), and
\* the zip of the loop stops at the shorter of tx and rx.
default_scanline_weights_unchecked(t, r) ==
    IF Len(t) = 0 THEN Raise("ValueError", << >>)
    ELSE LET elements_pairs == zip_set(t, r)
         IN  Return([k \in 1..Len(t) |->
                        IF k <= Len(r) /\ <<r[k], t[k]>> \notin elements_pairs
                        THEN 2 ELSE 1])

\* default_scanline_weights(tx, rx).  np.nditer over the zero-sized array
\* np.ones(0) raises ValueError ("Iteration of zero-sized operands is not
\* enabled") when the arguments of zip are evaluated, before the loop runs.
default_scanline_weights(t, r) ==
    IF Len(t) # Len(r) THEN Raise("ValueError", << >>)
    ELSE IF Len(t) = 0 THEN Raise("ValueError", << >>)
    ELSE LET elements_pairs == zip_set(t, r)
         IN  Return([k \in 1..Len(t) |->
                        IF <<r[k], t[k]>> \notin elements_pairs THEN 2 ELSE 1])

\* ------------------------------------------------------------------ inputs

Elements == 0..(MaxN - 1)

\* The caller's reordering of the scanlines: positions i and j exchanged in
\* both arrays.
Transpose(s, i, j) ==
    [k \in 1..Len(s) |-> IF k = i THEN s[j] ELSE IF k = j THEN s[i] ELSE s[k]]

Reverse(s) == [k \in 1..Len(s) |-> s[Len(s) - k + 1]]

Idle ==
    /\ capture_method = "none"
    /\ scanline_weights = << >>
    /\ error = "none"

\* The imaging state, unused by the calls into arim.ut.
NoImaging ==
    /\ edits = 0
    /\ scanline_data = << >>
    /\ times_tx_path = << >>
    /\ times_rx_path = << >>
    /\ tfm_res = << >>
    /\ tfm_rev = << >>

NoExtrema ==
    /\ lookup_times_tx = << >>
    /\ lookup_times_rx = << >>
    /\ extrema = << >>

Init ==
    /\ pc = "input"
    /\ swaps = 0
    /\ Idle
    /\ NoImaging
    /\ NoExtrema
    /\ \/ /\ tx = << >>
          /\ rx = << >>
          /\ origin = [kind |-> "any", n |-> 0]
       \/ \E n \in 1..MaxN :
             /\ tx = fmc(n).tx
             /\ rx = fmc(n).rx
             /\ origin = [kind |-> "fmc", n |-> n]
       \/ \E n \in 1..MaxN :
             /\ tx = hmc(n).tx
             /\ rx = hmc(n).rx
             /\ origin = [kind |-> "hmc", n |-> n]

\* The caller lists one more scanline (t, r) by hand.
AppendScanline ==
    /\ pc = "input"
    /\ origin.kind = "any"
    /\ Len(tx) = Len(rx)
    /\ Len(tx) < MaxLen
    /\ \E t \in Elements, r \in Elements :
          /\ tx' = Append(tx, t)
          /\ rx' = Append(rx, r)
    /\ UNCHANGED <<edits, imvars, extvars>>
    /\ UNCHANGED <<pc, origin, swaps, capture_method, scanline_weights, error>>

\* The caller passes a tx array one entry short.
DropLastTx ==
    /\ pc = "input"
    /\ origin.kind = "any"
    /\ Len(tx) = Len(rx)
    /\ Len(tx) > 0
    /\ tx' = SubSeq(tx, 1, Len(tx) - 1)
    /\ UNCHANGED <<edits, imvars, extvars>>
    /\ UNCHANGED <<pc, rx, origin, swaps, capture_method, scanline_weights, error>>

\* The caller passes an rx array one entry short.
DropLastRx ==
    /\ pc = "input"
    /\ origin.kind = "any"
    /\ Len(tx) = Len(rx)
    /\ Len(rx) > 0
    /\ rx' = SubSeq(rx, 1, Len(rx) - 1)
    /\ UNCHANGED <<edits, imvars, extvars>>
    /\ UNCHANGED <<pc, tx, origin, swaps, capture_method, scanline_weights, error>>

\* The caller passes (rx, tx) for (tx, rx).
SwapCoordinates ==
    /\ pc = "input"
    /\ origin.kind # "any"
    /\ tx' = rx
    /\ rx' = tx
    /\ UNCHANGED <<edits, imvars, extvars>>
    /\ UNCHANGED <<pc, origin, swaps, capture_method, scanline_weights, error>>

\* The caller exchanges two scanlines of a loaded acquisition.
ShuffleScanlines ==
    /\ pc = "input"
    /\ origin.kind # "any"
    /\ swaps < MaxSwaps
    /\ \E i \in 1..Len(tx), j \in 1..Len(tx) :
          /\ i < j
          /\ tx' = Transpose(tx, i, j)
          /\ rx' = Transpose(rx, i, j)
    /\ swaps' = swaps + 1
    /\ UNCHANGED <<edits, imvars, extvars>>
    /\ UNCHANGED <<pc, origin, capture_method, scanline_weights, error>>

\* The caller lists the scanlines of a loaded acquisition backwards.
ReverseScanlines ==
    /\ pc = "input"
    /\ origin.kind # "any"
    /\ tx' = Reverse(tx)
    /\ rx' = Reverse(rx)
    /\ UNCHANGED <<edits, imvars, extvars>>
    /\ UNCHANGED <<pc, origin, swaps, capture_method, scanline_weights, error>>

\* ------------------------------------------------------------------- calls

CallInfer ==
    /\ pc = "input"
    /\ LET out == infer_capture_method(tx, rx)
       IN  /\ capture_method' = out.value
           /\ error' = out.error
    /\ pc' = "infer"
    /\ UNCHANGED <<edits, imvars, extvars>>
    /\ UNCHANGED <<tx, rx, origin, swaps, scanline_weights>>

CallWeights ==
    /\ pc = "input"
    /\ LET out == default_scanline_weights(tx, rx)
       IN  /\ scanline_weights' = out.value
           /\ error' = out.error
    /\ pc' = "weights"
    /\ UNCHANGED <<edits, imvars, extvars>>
    /\ UNCHANGED <<tx, rx, origin, swaps, capture_method>>

Next ==
    \/ AppendScanline
    \/ DropLastTx
    \/ DropLastRx
    \/ SwapCoordinates
    \/ ShuffleScanlines
    \/ ReverseScanlines
    \/ CallInfer
    \/ CallWeights

Spec == Init /\ [][Next]_vars

\* ----------------------------------------------------------------- imaging

Points == 1..NumPoints

\* The element pairs {i, j} written with i <= j.
ElementPairs(n) == {q \in (0..(n - 1)) \X (0..(n - 1)) : q[1] <= q[2]}

\* The scanlines of a frame whose data are reciprocal: the waveform of
\* scanline (tx, rx) depends on the pair {tx, rx} only, as the seed
\* (tx * rx) ** 2 of the tests does.
frame_scanlines(t, r, data) ==
    [i \in 1..Len(t) |-> data[<<Min2(t[i], r[i]), Max2(t[i], r[i])>>]]

\* Delay-and-sum at every grid point.  Scanline i is sampled at the delay
\* ltx[p, tx[i]] + lrx[p, rx[i]]; a delay outside the sampled instants
\* contributes the fill value NaN, which poisons the sum of its point.
\* A point's value is [nan, sum]: the weighted sum, or NaN.
delay_and_sum(scanlines, t, r, ltx, lrx, weights) ==
    [p \in Points |->
        LET delay(i) == ltx[p][t[i] + 1] + lrx[p][r[i] + 1]
            RECURSIVE acc(_)
            acc(i) == IF i = 0 THEN 0
                      ELSE acc(i - 1) + weights[i] * scanlines[i][delay(i) + 1]
        IN  IF \E i \in 1..Len(t) : delay(i) \notin 0..(NumSamples - 1)
            THEN [nan |-> TRUE, sum |-> 0]
            ELSE [nan |-> FALSE, sum |-> acc(Len(t))]]

\* tfm_for_view(frame, grid, view): the lookup times of the view's two paths,
\* the weights of default_scanline_weights, and the result scaled by
\* 1 / numscanlines (the tests expect a constant / frame.numscanlines).
tfm_for_view(t, r, data, view) ==
    [res |-> delay_and_sum(frame_scanlines(t, r, data), t, r,
                           view.tx_path, view.rx_path,
                           default_scanline_weights(t, r).value),
     numscanlines |-> Len(t)]

\* contact_tfm(frame, grid, velocity): the same lookup times on the transmit
\* and on the receive side.
contact_tfm(t, r, data, times) ==
    [res |-> delay_and_sum(frame_scanlines(t, r, data), t, r, times, times,
                           default_scanline_weights(t, r).value),
     numscanlines |-> Len(t)]

InitTfm ==
    /\ pc = "frame"
    /\ swaps = 0
    /\ Idle
    /\ NoExtrema
    /\ edits = 0
    /\ tfm_res = << >>
    /\ tfm_rev = << >>
    /\ \E n \in 1..MaxProbe, kind \in {"fmc", "hmc"}, a \in {0, MaxAmp} :
          /\ origin = [kind |-> kind, n |-> n]
          /\ tx = IF kind = "fmc" THEN fmc(n).tx ELSE hmc(n).tx
          /\ rx = IF kind = "fmc" THEN fmc(n).rx ELSE hmc(n).rx
          /\ scanline_data = [q \in ElementPairs(n) |-> [k \in 1..NumSamples |-> a]]
          /\ times_tx_path = [p \in Points |-> [e \in 1..n |-> 0]]
          /\ times_rx_path = [p \in Points |-> [e \in 1..n |-> 0]]

\* One sample of the waveform of an element pair is recorded.
RecordSample ==
    /\ pc = "frame"
    /\ edits < MaxEdits
    /\ \E q \in DOMAIN scanline_data, k \in 1..NumSamples, a \in 0..MaxAmp :
          /\ scanline_data[q][k] # a
          /\ scanline_data' = [scanline_data EXCEPT ![q][k] = a]
    /\ edits' = edits + 1
    /\ UNCHANGED <<pc, tx, rx, utvars, times_tx_path, times_rx_path,
                   tfm_res, tfm_rev, extvars>>

\* Ray tracing sets one lookup time of the transmit path.
TraceTxPath ==
    /\ pc = "frame"
    /\ edits < MaxEdits
    /\ \E p \in Points, e \in 1..origin.n, d \in 0..MaxTime :
          /\ times_tx_path[p][e] # d
          /\ times_tx_path' = [times_tx_path EXCEPT ![p][e] = d]
    /\ edits' = edits + 1
    /\ UNCHANGED <<pc, tx, rx, utvars, scanline_data, times_rx_path,
                   tfm_res, tfm_rev, extvars>>

\* Ray tracing sets one lookup time of the receive path.
TraceRxPath ==
    /\ pc = "frame"
    /\ edits < MaxEdits
    /\ \E p \in Points, e \in 1..origin.n, d \in 0..MaxTime :
          /\ times_rx_path[p][e] # d
          /\ times_rx_path' = [times_rx_path EXCEPT ![p][e] = d]
    /\ edits' = edits + 1
    /\ UNCHANGED <<pc, tx, rx, utvars, scanline_data, times_tx_path,
                   tfm_res, tfm_rev, extvars>>

\* tfm = tfm_for_view(frame, grid, view)
TfmForView ==
    /\ pc = "frame"
    /\ tfm_res' = tfm_for_view(tx, rx, scanline_data,
                               [tx_path |-> times_tx_path, rx_path |-> times_rx_path])
    /\ pc' = "tfm"
    /\ UNCHANGED <<tx, rx, utvars, edits, scanline_data, times_tx_path,
                   times_rx_path, tfm_rev, extvars>>

\* tfm_rev = tfm_for_view(frame, grid, view_rev), the two paths exchanged.
TfmForReversedView ==
    /\ pc = "tfm"
    /\ tfm_rev' = tfm_for_view(tx, rx, scanline_data,
                               [tx_path |-> times_rx_path, rx_path |-> times_tx_path])
    /\ pc' = "tfm_rev"
    /\ UNCHANGED <<tx, rx, utvars, edits, scanline_data, times_tx_path,
                   times_rx_path, tfm_res, extvars>>

\* tfm = contact_tfm(frame, grid, velocity)
ContactTfm ==
    /\ pc = "frame"
    /\ tfm_res' = contact_tfm(tx, rx, scanline_data, times_tx_path)
    /\ pc' = "contact"
    /\ UNCHANGED <<tx, rx, utvars, edits, scanline_data, times_tx_path,
                   times_rx_path, tfm_rev, extvars>>

NextTfm ==
    \/ RecordSample
    \/ TraceTxPath
    \/ TraceRxPath
    \/ TfmForView
    \/ TfmForReversedView
    \/ ContactTfm

SpecTfm == InitTfm /\ [][NextTfm]_vars

\* ------------------------------------------------------------------ extrema

\* tx and rx of test_extrema_lookup_times_in_rectbox.
test_tx == <<0, 0, 0, 1, 1, 1>>

test_rx == <<0, 1, 2, 1, 1, 2>>

GridPoints == 1..NumGridPoints

\* The (point, scanline) cells of the points lo..hi, point by point.
scan_order(lo, hi, numscanlines) ==
    [k \in 1..((hi - lo + 1) * numscanlines) |->
        <<lo + ((k - 1) \div numscanlines), ((k - 1) % numscanlines) + 1>>]

\* The extrema search keeping the grid point, not the scanline, of each
\* extremum.
extrema_lookup_times_in_rectbox_point(ltx, lrx, t, r, lo, hi) ==
    LET order == scan_order(lo, hi, Len(t))
        time(c) == ltx[c[1]][c[2]] + lrx[c[1]][c[2]]
        RECURSIVE best(_)
        best(k) ==
            IF k = 1
            THEN [tmin |-> time(order[1]), imin |-> order[1][1],
                  tmax |-> time(order[1]), imax |-> order[1][1]]
            ELSE LET b == best(k - 1)
                     c == order[k]
                 IN  [tmin |-> IF time(c) < b.tmin THEN time(c) ELSE b.tmin,
                      imin |-> IF time(c) < b.tmin THEN c[1] ELSE b.imin,
                      tmax |-> IF time(c) > b.tmax THEN time(c) ELSE b.tmax,
                      imax |-> IF time(c) > b.tmax THEN c[1] ELSE b.imax]
        b == best(Len(order))
    IN  [tmin |-> b.tmin, tmax |-> b.tmax,
         tx_elt_for_tmin |-> t[b.imin], rx_elt_for_tmin |-> r[b.imin],
         tx_elt_for_tmax |-> t[b.imax], rx_elt_for_tmax |-> r[b.imax]]

\* extrema_lookup_times_in_rectbox(grid, lookup_times_tx, lookup_times_rx, tx,
\* rx) over the grid points lo..hi of the box.  The tables hold one column per
\* scanline (shape (grid.numpoints, len(tx)) in the test, which sets column 5
\* for "scanline 5 (tx=1, rx=2)"); the cells are scanned point by point and a
\* strictly smaller (larger) time replaces the running minimum (maximum).
extrema_lookup_times_in_rectbox(ltx, lrx, t, r, lo, hi) ==
    LET order == scan_order(lo, hi, Len(t))
        time(c) == ltx[c[1]][c[2]] + lrx[c[1]][c[2]]
        RECURSIVE best(_)
        best(k) ==
            IF k = 1
            THEN [tmin |-> time(order[1]), imin |-> order[1][2],
                  tmax |-> time(order[1]), imax |-> order[1][2]]
            ELSE LET b == best(k - 1)
                     c == order[k]
                 IN  [tmin |-> IF time(c) < b.tmin THEN time(c) ELSE b.tmin,
                      imin |-> IF time(c) < b.tmin THEN c[2] ELSE b.imin,
                      tmax |-> IF time(c) > b.tmax THEN time(c) ELSE b.tmax,
                      imax |-> IF time(c) > b.tmax THEN c[2] ELSE b.imax]
        b == best(Len(order))
    IN  [tmin |-> b.tmin, tmax |-> b.tmax,
         tx_elt_for_tmin |-> t[b.imin], rx_elt_for_tmin |-> r[b.imin],
         tx_elt_for_tmax |-> t[b.imax], rx_elt_for_tmax |-> r[b.imax]]

\* The tables of test_extrema_lookup_times_in_rectbox, in tenths, on the grid
\* points 0..5 (positions 1..6): every entry the test sets lies there.
test_lookup_times_tx ==
    [p \in 1..6 |-> [i \in 1..6 |->
        CASE p = 6 /\ i = 6 -> -15
          [] p = 6 /\ i = 5 -> -20
          [] p = 4 /\ i = 2 -> 15
          [] p = 1 /\ i = 1 -> 20
          [] OTHER -> 0]]

test_lookup_times_rx ==
    [p \in 1..6 |-> [i \in 1..6 |->
        CASE p = 6 /\ i = 6 -> -15
          [] p = 6 /\ i = 5 -> -1
          [] p = 4 /\ i = 2 -> 15
          [] p = 1 /\ i = 1 -> 1
          [] OTHER -> 0]]

\* The assertions of test_extrema_lookup_times_in_rectbox hold of the model:
\* tmin = -3.0 at (tx=1, rx=2) and tmax = 3.0 at (tx=0, rx=1).  Read at the
\* elements of each scanline, the same tables have no combined time below 0.
TestExtremaExpectation ==
    /\ extrema_lookup_times_in_rectbox(
           test_lookup_times_tx, test_lookup_times_rx, test_tx, test_rx, 1, 6)
       = [tmin |-> -30, tmax |-> 30,
          tx_elt_for_tmin |-> 1, rx_elt_for_tmin |-> 2,
          tx_elt_for_tmax |-> 0, rx_elt_for_tmax |-> 1]
    /\ \A p \in 1..6, i \in 1..6 :
          test_lookup_times_tx[p][test_tx[i] + 1]
              + test_lookup_times_rx[p][test_rx[i] + 1] >= 0

\* The tables start as np.zeros((grid.numpoints, len(tx))).
InitExtrema ==
    /\ pc = "tables"
    /\ swaps = 0
    /\ Idle
    /\ edits = 0
    /\ scanline_data = << >>
    /\ times_tx_path = << >>
    /\ times_rx_path = << >>
    /\ tfm_res = << >>
    /\ tfm_rev = << >>
    /\ origin = [kind |-> "any", n |-> 0]
    /\ tx = test_tx
    /\ rx = test_rx
    /\ lookup_times_tx = [p \in GridPoints |-> [i \in 1..Len(test_tx) |-> 0]]
    /\ lookup_times_rx = [p \in GridPoints |-> [i \in 1..Len(test_tx) |-> 0]]
    /\ extrema = << >>

\* lookup_times_tx[grid_idx, scanline] = d
SetLookupTimeTx ==
    /\ pc = "tables"
    /\ edits < MaxEdits
    /\ \E p \in GridPoints, i \in 1..Len(tx), d \in {-MaxTime, 0, MaxTime} :
          /\ lookup_times_tx[p][i] # d
          /\ lookup_times_tx' = [lookup_times_tx EXCEPT ![p][i] = d]
    /\ edits' = edits + 1
    /\ UNCHANGED <<pc, tx, rx, utvars, imvars, lookup_times_rx, extrema>>

\* lookup_times_rx[grid_idx, scanline] = d
SetLookupTimeRx ==
    /\ pc = "tables"
    /\ edits < MaxEdits
    /\ \E p \in GridPoints, i \in 1..Len(tx), d \in {-MaxTime, 0, MaxTime} :
          /\ lookup_times_rx[p][i] # d
          /\ lookup_times_rx' = [lookup_times_rx EXCEPT ![p][i] = d]
    /\ edits' = edits + 1
    /\ UNCHANGED <<pc, tx, rx, utvars, imvars, lookup_times_tx, extrema>>

\* out = extrema_lookup_times_in_rectbox(grid, lookup_times_tx,
\* lookup_times_rx, tx, rx, ...) for the box holding the points lo..hi.
CallExtrema ==
    /\ pc = "tables"
    /\ \E lo \in GridPoints, hi \in GridPoints :
          /\ lo <= hi
          /\ extrema' = [box |-> <<lo, hi>>,
                         out |-> extrema_lookup_times_in_rectbox(
                                     lookup_times_tx, lookup_times_rx, tx, rx, lo, hi)]
    /\ pc' = "extrema"
    /\ UNCHANGED <<tx, rx, utvars, edits, imvars, lookup_times_tx, lookup_times_rx>>

NextExtrema ==
    \/ SetLookupTimeTx
    \/ SetLookupTimeRx
    \/ CallExtrema

SpecExtrema == InitExtrema /\ [][NextExtrema]_vars

\* ------------------------------------------------------------------ claims

\* The arrays are exactly those fmc(origin.n) returns.
IsFmcOutput == origin.kind = "fmc" /\ tx = fmc(origin.n).tx /\ rx = fmc(origin.n).rx

\* C1 as stated: for every N >= 1, infer_capture_method applied to the arrays
\* of fmc(N) returns 'fmc'.
C1_FmcInferredForEveryN ==
    (pc = "infer" /\ IsFmcOutput) => capture_method = "fmc"

\* C1 amended: for every N >= 2, infer_capture_method applied to the arrays of
\* fmc(N) returns 'fmc'; for N = 1 it returns 'hmc'.
C1_FmcInferredFromTwoElements ==
    (pc = "infer" /\ IsFmcOutput) =>
        /\ error = "none"
        /\ origin.n >= 2 => capture_method = "fmc"
        /\ origin.n = 1 => capture_method = "hmc"

C1_Witness ==
    /\ pc = "infer"
    /\ IsFmcOutput
    /\ origin.n >= 2
    /\ capture_method = "fmc"

\* C2: for every N >= 1, infer_capture_method returns 'hmc' for the arrays of
\* hmc(N), for the same arrays with tx and rx exchanged, and for every
\* reordering of their scanlines.
C2_HmcInferredInEitherOrder ==
    (pc = "infer" /\ origin.kind = "hmc") =>
        /\ error = "none"
        /\ capture_method = "hmc"

\* A half matrix with tx >= rx whose scanlines are not in the order of hmc(N).
C2_Witness ==
    /\ pc = "infer"
    /\ origin.kind = "hmc"
    /\ origin.n >= 2
    /\ \E k \in 1..Len(tx) : tx[k] > rx[k]
    /\ tx # hmc(origin.n).rx
    /\ capture_method = "hmc"

\* The reciprocal (rx[k], tx[k]) of scanline k occurs among the scanlines.
ReciprocalPresent(k) ==
    \E j \in 1..Len(tx) : tx[j] = rx[k] /\ rx[j] = tx[k]

\* C3 as stated: for every pair of equal-length tx and rx,
\* default_scanline_weights returns one weight per scanline, 1.0 exactly when
\* the reciprocal pair occurs among the scanlines and 2.0 otherwise.
C3_WeightsFollowReciprocalPresence ==
    (pc = "weights" /\ Len(tx) = Len(rx)) =>
        /\ error = "none"
        /\ Len(scanline_weights) = Len(tx)
        /\ \A k \in 1..Len(tx) :
              scanline_weights[k] = IF ReciprocalPresent(k) THEN 1 ELSE 2

\* C3 on the inputs the function accepts: the same statement for tx and rx of
\* equal length with at least one scanline.
C3_WeightsOfNonEmptyInput ==
    (pc = "weights" /\ Len(tx) = Len(rx) /\ Len(tx) >= 1) =>
        /\ error = "none"
        /\ Len(scanline_weights) = Len(tx)
        /\ \A k \in 1..Len(tx) :
              scanline_weights[k] = IF ReciprocalPresent(k) THEN 1 ELSE 2

\* C4: for every N >= 1, every weight default_scanline_weights returns for
\* the arrays of fmc(N) is 1.0.
C4_FmcWeightsAllOne ==
    (pc = "weights" /\ origin.kind = "fmc") =>
        /\ error = "none"
        /\ Len(scanline_weights) = origin.n * origin.n
        /\ \A k \in 1..Len(scanline_weights) : scanline_weights[k] = 1

C4_Witness ==
    /\ pc = "weights"
    /\ origin.kind = "fmc"
    /\ origin.n >= 2
    /\ Len(scanline_weights) = origin.n * origin.n

\* C5: for every N >= 1 and the arrays of hmc(N), default_scanline_weights
\* gives 1.0 to every pulse-echo scanline (tx[k] = rx[k]) and 2.0 to every
\* other scanline.
C5_HmcWeightsByPulseEcho ==
    (pc = "weights" /\ origin.kind = "hmc") =>
        /\ error = "none"
        /\ Len(scanline_weights) = Len(tx)
        /\ \A k \in 1..Len(tx) :
              scanline_weights[k] = IF tx[k] = rx[k] THEN 1 ELSE 2

C5_Witness ==
    /\ pc = "weights"
    /\ origin.kind = "hmc"
    /\ \E k \in 1..Len(scanline_weights) : scanline_weights[k] = 1
    /\ \E k \in 1..Len(scanline_weights) : scanline_weights[k] = 2

\* C9: when tx and rx differ in length, infer_capture_method and
\* default_scanline_weights both raise an error, and neither returns a
\* classification or a weight sequence.
C9_LengthMismatchRaises ==
    (pc \in {"infer", "weights"} /\ Len(tx) # Len(rx)) =>
        /\ error \in {"AssertionError", "ValueError"}
        /\ capture_method = "none"
        /\ scanline_weights = << >>

\* The assertion of infer_capture_method fails on two non-empty arrays.
C9_Witness ==
    /\ pc = "infer"
    /\ Len(tx) # Len(rx)
    /\ tx # << >>
    /\ rx # << >>
    /\ error = "AssertionError"

\* infer_capture_method with the full-matrix test made first.
infer_fmc_first(t, r) ==
    IF is_fmc(t, r) THEN "fmc"
    ELSE IF is_hmc(t, r) THEN "hmc"
    ELSE "unsupported"

\* C10: on an input with N = max index + 1 > 1 the half-matrix and the
\* full-matrix tests never both succeed, so testing full-matrix first returns
\* the same result; the two tests both succeed only for N = 1, where 'hmc'
\* is returned.
C10_TestOrderImmaterialAboveOne ==
    (pc = "infer" /\ error = "none") =>
        /\ num_elements(tx, rx) > 1 =>
              /\ ~(is_hmc(tx, rx) /\ is_fmc(tx, rx))
              /\ capture_method = infer_fmc_first(tx, rx)
        /\ (is_hmc(tx, rx) /\ is_fmc(tx, rx)) =>
              /\ num_elements(tx, rx) = 1
              /\ capture_method = "hmc"

\* A full matrix of more than one element, on which only the second test
\* succeeds.
C10_Witness ==
    /\ pc = "infer"
    /\ error = "none"
    /\ num_elements(tx, rx) > 1
    /\ is_fmc(tx, rx)
    /\ ~is_hmc(tx, rx)
    /\ capture_method = "fmc"

\* The degenerate single-element input, on which both tests succeed.
C10_SingleElementState ==
    /\ pc = "infer"
    /\ error = "none"
    /\ num_elements(tx, rx) = 1
    /\ is_hmc(tx, rx)
    /\ is_fmc(tx, rx)
    /\ capture_method = "hmc"

\* C6: for a frame acquired as full-matrix or as half-matrix, with reciprocal
\* scanline data and the weights of default_scanline_weights, a view and the
\* view with its transmit and receive lookup times exchanged give the same
\* value at every grid point.
C6_ViewReciprocity ==
    pc = "tfm_rev" => tfm_rev = tfm_res

\* C6 on full-matrix frames only.
C6_FmcViewReciprocity ==
    (pc = "tfm_rev" /\ origin.kind = "fmc") => tfm_rev = tfm_res

\* C7: for every N >= 1, reciprocal data and the same lookup times on both
\* sides, the weighted sum over the scanlines of hmc(N) equals at every grid
\* point the weighted sum over the scanlines of fmc(N).
C7_HalfMatrixCompensation ==
    (pc = "contact" /\ origin.kind = "hmc") =>
        LET full == fmc(origin.n)
        IN  tfm_res.res =
                contact_tfm(full.tx, full.rx, scanline_data, times_tx_path).res

\* A half matrix of several elements whose image is a finite, non-zero sum to
\* which a scanline of weight 2 contributes.
C7_Witness ==
    /\ pc = "contact"
    /\ origin.kind = "hmc"
    /\ origin.n >= 2
    /\ \E p \in Points : ~tfm_res.res[p].nan /\ tfm_res.res[p].sum >= 2
    /\ \E q \in DOMAIN scanline_data :
          q[1] # q[2] /\ \E k \in 1..NumSamples : scanline_data[q][k] # 0

\* The grid points of the box of the call.
BoxPoints == extrema.box[1]..extrema.box[2]

\* The combined time of scanline i at point p when the tables are read at the
\* elements of the scanline: lookupTx[p, tx[i]] + lookupRx[p, rx[i]].
TimeByElement(p, i) == lookup_times_tx[p][tx[i] + 1] + lookup_times_rx[p][rx[i] + 1]

\* The combined time of scanline i at point p when the tables are read at the
\* scanline: lookupTx[p, i] + lookupRx[p, i].
TimeByScanline(p, i) == lookup_times_tx[p][i] + lookup_times_rx[p][i]

====
